---- MODULE Spec2Model ----
(***************************************************************************)
(* The LinkClick service worker: the context-menu click handler, the       *)
(* content-script activation, the retrying command delivery with its       *)
(* frame fallback, and the backend verification client.                    *)
(*                                                                         *)
(* One action per point at which the asynchronous handler resumes: the     *)
(* click itself, and the completion of each awaited host operation         *)
(* (chrome.scripting.executeScript, chrome.tabs.sendMessage, fetch,        *)
(* response.json, setTimeout).  The host and the backend are the           *)
(* environment: the outcome of every operation is chosen by \E.            *)
(***************************************************************************)
EXTENDS Integers, Sequences, FiniteSets, TLC

\* ------------------------------------------------------------------ bounds
\* Date.now() is read from 1..MaxTime.
MaxTime == 1
\* The clock of an endpoint attempt advances by TickMs and is followed up to
\* MaxElapsedMs.
TickMs == 8000
MaxElapsedMs == 16000

\* ------------------------------------------------------- JavaScript values
\* A JavaScript value is a tagged record; numbers are kept as numerals.
JsUndefined == [t |-> "undefined", v |-> ""]
JsString(s) == [t |-> "string", v |-> s]
JsNumber(n) == [t |-> "number", v |-> n]

\* ToBoolean: undefined, "" and 0 are falsy, every other value here is truthy.
ToBoolean(x) ==
    CASE x.t = "undefined" -> FALSE
      [] x.t = "string"    -> x.v # ""
      [] x.t = "number"    -> x.v # "0"
      [] OTHER             -> TRUE

\* a || b
JsOr(a, b) == IF ToBoolean(a) THEN a ELSE b

\* String.prototype.startsWith on strings kept as sequences of characters.
startsWith(s, p) == Len(s) >= Len(p) /\ SubSeq(s, 1, Len(p)) = p

\* ------------------------------------------------------------ types.ts
SafetyVerdict == {"SAFE", "DANGER", "SUSPICIOUS", "UNKNOWN"}

NoResult == [url |-> JsUndefined, verdict |-> JsUndefined,
             reason |-> JsUndefined, timestamp |-> 0]

\* ------------------------------------------------------ geminiService.ts
BACKEND_URLS == <<"http://127.0.0.1:8000/analyze", "http://localhost:8000/analyze">>
BACKEND_TIMEOUT_MS == 8000

DefaultReason == "Unable to determine safety."
UnreachableReason ==
    "Backend timeout/unreachable (8s). Start: uvicorn main:app --reload --host 127.0.0.1 --port 8000"

\* The bodies an endpoint may answer with, as response.json() resolves them:
\* JSON null, a JSON primitive, or an object with any verdict and reason.
\* Reading a property of a primitive gives undefined.
JsonObject(verdict, reason) == [t |-> "object", verdict |-> verdict, reason |-> reason]
JsonNull == [t |-> "null", verdict |-> JsUndefined, reason |-> JsUndefined]
JsonPrimitive == [t |-> "number", verdict |-> JsUndefined, reason |-> JsUndefined]
NoData == [t |-> "none", verdict |-> JsUndefined, reason |-> JsUndefined]

VerdictFields ==
    {JsUndefined, JsString(""), JsString("SAFE"), JsString("SUSPICIOUS"),
     JsString("DANGER"), JsString("UNKNOWN"), JsString("MALFORMED_VALUE"),
     JsNumber("7")}
ReasonFields ==
    {JsUndefined, JsString(""), JsString("Known phishing host."),
     JsNumber("0"), JsNumber("7")}
ResponseBodies ==
    {JsonNull, JsonPrimitive}
    \cup {JsonObject(vf, JsString("Known phishing host.")) : vf \in VerdictFields}
    \cup {JsonObject(JsString("SAFE"), rf) : rf \in ReasonFields}
    \cup {JsonObject(JsUndefined, JsUndefined),
          JsonObject(JsString("MALFORMED_VALUE"), JsUndefined)}

\* How an awaited fetch(endpoint, {signal}) settles: it rejects (connection
\* failure, or AbortError when the timer calls controller.abort()), or it
\* resolves with a response whose ok flag is false or true.
FetchOutcomes == {"networkError", "abort", "status", "ok"}

\* ------------------------------------------------------ service worker
\* Error messages of chrome.runtime.lastError and of a rejected
\* executeScript, kept as the set of the fragments the code searches for.
MsgNoReceiver == {"Could not establish connection", "Receiving end does not exist"}
MsgNoTab == {"No tab with id"}
MsgCannotAccess == {"Cannot access contents of the page"}
MsgGallery == {"The extensions gallery cannot be scripted"}
MsgChromeUrl == {"chrome://"}
MsgPortClosed == {}
ErrorMessages ==
    {MsgNoReceiver, MsgNoTab, MsgCannotAccess, MsgGallery, MsgChromeUrl, MsgPortClosed}

isMissingReceiverError(message) ==
    \/ "Receiving end does not exist" \in message
    \/ "Could not establish connection" \in message

isNonInjectablePageError(message) ==
    \/ "Cannot access contents of the page" \in message
    \/ "The extensions gallery cannot be scripted" \in message
    \/ "chrome://" \in message
    \/ "No tab with id" \in message

\* The class of a send error, in the order safeSendMessage tests it.
ErrorClass(message) ==
    IF isNonInjectablePageError(message) THEN "ScopeIneligible"
    ELSE IF isMissingReceiverError(message) THEN "ListenerAbsent"
    ELSE "Other"

\* One text for both failures.
UnmessageableGeneric == "Content script is not responding after retries."

\* The messages of the errors safeSendMessage throws.
Unmessageable == "Unable to message this page"
FailedToSend == "Failed to send message"
NotResponding == "Content script is not responding after retries."

StartMessage == [type |-> "VERIFICATION_START", payload |-> NoResult]
ResultMessage(r) == [type |-> "VERIFICATION_RESULT", payload |-> r]
NoMessage == [type |-> "", payload |-> NoResult]

\* A host operation in flight.
Op(kind, tId, fId, type, endpoint) ==
    [kind |-> kind, tabId |-> tId, frameId |-> fId, type |-> type, endpoint |-> endpoint]

\* One entry of the record of a safeSendMessage call.
Ev(e, c, ms) == [e |-> e, c |-> c, ms |-> ms]

NoCall == [message |-> NoMessage, retries |-> 0, tabId |-> JsUndefined, frameId |-> JsUndefined,
           retryDelayMs |-> 0, i |-> 0, at |-> "none", errorMessage |-> {},
           call |-> 0]
NoVerify == [idx |-> 0, at |-> "none", elapsed |-> 0]

\* How an awaited chrome.tabs.sendMessage or executeScript settles.
Settled(ok, message) == [ok |-> ok, message |-> message]
SendOutcomes == {Settled(TRUE, {})} \cup {Settled(FALSE, m) : m \in ErrorMessages}
InstallOutcomes ==
    {Settled(TRUE, {}), Settled(FALSE, MsgCannotAccess), Settled(FALSE, MsgPortClosed)}

\* How an awaited response.json() settles: it rejects, or resolves with a body.
JsonSettles(ok, data) == [ok |-> ok, data |-> data]
JsonOutcomes == {JsonSettles(FALSE, NoData)} \cup {JsonSettles(TRUE, b) : b \in ResponseBodies}

\* The clicks the host may raise.
MenuItemIds == {"verify-link-shield", "checkLink"}
LinkUrls == {JsUndefined, JsString(""), JsString("http://evil.test/login"),
             JsString("https://example.org/")}
TabIds == {JsUndefined, JsNumber("7")}
TabUrl(present, s) == [present |-> present, s |-> s]
TabUrls ==
    {TabUrl(FALSE, <<>>),
     TabUrl(TRUE, <<>>),
     TabUrl(TRUE, <<"h","t","t","p",":","/","/","a">>),
     TabUrl(TRUE, <<"h","t","t","p","s",":","/","/","a">>),
     TabUrl(TRUE, <<"h","t","t","p">>),
     TabUrl(TRUE, <<"c","h","r","o","m","e",":","/","/","x">>),
     TabUrl(TRUE, <<"f","i","l","e",":","/","/","/","a">>)}
InfoFrameIds == {JsUndefined, JsNumber("0"), JsNumber("1")}

\* A guard that tests the scheme name without its "://".
SupportedTabUrlLoose(tabUrl) ==
    /\ tabUrl.present
    /\ startsWith(tabUrl.s, <<"h","t","t","p">>)

\* The guard of the click handler on the tab's URL.
SupportedTabUrl(tabUrl) ==
    /\ tabUrl.present
    /\ tabUrl.s # <<>>
    /\ \/ startsWith(tabUrl.s, <<"h","t","t","p",":","/","/">>)
       \/ startsWith(tabUrl.s, <<"h","t","t","p","s",":","/","/">>)

\* Whether a tab URL is present and starts with http:// or https://.
HttpContext(tabUrl) ==
    /\ tabUrl.present
    /\ \E n \in 1..Len(tabUrl.s) :
           SubSeq(tabUrl.s, 1, n) \in {<<"h","t","t","p",":","/","/">>,
                                      <<"h","t","t","p","s",":","/","/">>}

\* ------------------------------------------------------------------ state
VARIABLES
    pc,         \* where the click handler is: idle, activate, start, verify, result, done
    url,        \* info.linkUrl
    tabId,      \* tab.id
    frameId,    \* the handler's frameId
    eligible,   \* whether the clicked tab's URL is an http:// or https:// one
    d,          \* the running safeSendMessage call
    v,          \* the running verifyUrlWithAI call
    result,     \* the VerificationResult verifyUrlWithAI returned
    inflight,   \* host operations issued and not yet settled
    callLog,    \* what the running safeSendMessage call has done
    calls,      \* the finished safeSendMessage calls of the current step
    contacted,  \* the endpoint attempts of verifyUrlWithAI, in order, kept until
                \* the handler's next step after verifyUrlWithAI returned
    activated,  \* the targets ensureContentScriptInjected asked to install
    installed,  \* the installs of ensureContentScriptInjected that have settled,
                \* and how, kept until the first send of the run settles
    issued,     \* the kinds of host operation issued so far
    sent,       \* what sendWithFrameFallback returned: "", true, false
    outcome,    \* how the handler ended: "", ignored, skipped, returned, caught
    linkClickEnabled,  \* the key linkClickEnabled of chrome.storage.sync
    popup,      \* the popup: whether it is open, and its isEnabled state
    offAtClick, \* whether linkClickEnabled was false when the click was raised
    agent,      \* the content script in each scope of the page
    last,       \* the last thing that happened to a content script
    parked      \* the locals of the other invocation of the click handler, which
                \* is not the one the event loop is running

workerVars == <<pc, url, tabId, frameId, eligible, d, v, result, inflight, callLog,
                calls, contacted, activated, installed, issued, sent, outcome>>
popupVars == <<linkClickEnabled, popup>>
agentVars == <<agent, last>>
vars == <<workerVars, popupVars, offAtClick, agentVars, parked>>

\* The state one invocation of the click handler owns: the constants and
\* awaited calls of its closure, with what is recorded about them.
Locals ==
    [pc |-> pc, url |-> url, tabId |-> tabId, frameId |-> frameId, eligible |-> eligible,
     d |-> d, v |-> v, result |-> result, inflight |-> inflight, callLog |-> callLog,
     calls |-> calls, contacted |-> contacted, activated |-> activated,
     installed |-> installed, issued |-> issued, sent |-> sent, outcome |-> outcome]

\* The scopes of the page: the top level and the frame with id 1.
Scopes == {JsUndefined, JsNumber("1")}

\* What the overlay shows for a result.
NoCard == [score |-> 0, verdict |-> JsUndefined, reason |-> JsUndefined]

\* A window content.js has not run in: no ready flag, no listener, no root
\* element, no dismiss timer.  The field dismissed keeps what the overlay
\* showed when the dismiss timer last hid it.
Fresh == [ready |-> FALSE, listeners |-> 0, display |-> "absent", html |-> "",
          card |-> NoCard, timer |-> FALSE, dismissed |-> ""]

Happened(kind, scope, rendered) ==
    [kind |-> kind, scope |-> scope, rendered |-> rendered, acked |-> FALSE, threw |-> FALSE]

\* A message was delivered to a scope: whether the listener answered it and
\* whether its rendering threw.
Delivered(type, scope, rendered, acked, threw) ==
    [kind |-> type, scope |-> scope, rendered |-> rendered, acked |-> acked, threw |-> threw]

\* A key of chrome.storage.sync: absent, or present with a boolean value.
Absent == [present |-> FALSE, value |-> FALSE]
Stored(b) == [present |-> TRUE, value |-> b]

\* The popup before it is mounted: useState(true).
Closed == [open |-> FALSE, isEnabled |-> TRUE]

Init ==
    /\ pc = "idle"
    /\ url = JsUndefined
    /\ tabId = JsUndefined
    /\ frameId = JsUndefined
    /\ eligible = FALSE
    /\ d = NoCall
    /\ v = NoVerify
    /\ result = NoResult
    /\ inflight = {}
    /\ callLog = <<>>
    /\ calls = <<>>
    /\ contacted = <<>>
    /\ activated = {}
    /\ installed = {}
    /\ issued = {}
    /\ sent = ""
    /\ outcome = ""
    /\ linkClickEnabled = Absent
    /\ popup = Closed
    /\ offAtClick = FALSE
    /\ agent = [s \in Scopes |-> Fresh]
    /\ last = Happened("", JsUndefined, 0)
    /\ parked = Locals

\* ------------------------------------------------- decisions of the code
\* ensureContentScriptInjected: the top frame always, and the clicked frame
\* when it is a number other than 0.
InjectionTargets(fId) ==
    {JsUndefined} \cup (IF fId.t = "number" /\ fId.v # "0" THEN {fId} ELSE {})

\* Only the refusals of a page that cannot be scripted are absorbed.
OnInstallErrorRethrows(message) ==
    IF isNonInjectablePageError(message) THEN "absorb" ELSE "throw"

\* ensureContentScriptInjected, the try/catch around each target's
\* executeScript: a rejection is caught, and at most logged.
OnInstallError(message) == "absorb"

\* A sendMessageToTab whose callback never calls resolve.
SendMessageToTabStaysPending(res) == IF res.ok THEN "pending" ELSE "reject"

\* sendMessageToTab: the callback of chrome.tabs.sendMessage rejects the
\* promise when chrome.runtime.lastError is set and resolves it otherwise.
SendMessageToTab(res) == IF res.ok THEN "resolve" ELSE "reject"

\* A loop that goes on to its next turn after an acknowledged send.
AfterAckNextTurn(i, retries) == IF i + 1 < retries THEN "send" ELSE "return"

\* safeSendMessage, try block: the statement after the awaited send.
AfterAck(i, retries) == "return"

\* An executeScript that is started and not awaited.
InstallNotAwaited == FALSE

\* safeSendMessage: whether the executeScript of the catch block is awaited.
InstallAwaited == TRUE

\* An injection whose rejection replaces the send's error.
ErrorAfterInjectFromInstall(errorMessage, res) ==
    IF res.ok THEN errorMessage ELSE res.message

\* safeSendMessage: the error tested after the injection is the send's; a
\* rejection of executeScript is logged by its .catch and dropped.
ErrorAfterInject(errorMessage, res) == errorMessage

\* A catch block that never injects.
OnSendErrorNoInject(errorMessage, i) ==
    IF isNonInjectablePageError(errorMessage) THEN "throw" ELSE "check"

\* A catch block that lacks the non-injectable test.
OnSendErrorUnclassified(errorMessage, i) ==
    IF i = 0 THEN "inject" ELSE "check"

\* safeSendMessage, catch block up to the injection: what follows a send
\* that failed with errorMessage on loop index i.
OnSendError(errorMessage, i) ==
    IF isNonInjectablePageError(errorMessage) THEN "throw"
    ELSE IF i = 0 THEN "inject"
    ELSE "check"

\* safeSendMessage, catch block after the injection.
AfterInject(errorMessage) ==
    IF ~isMissingReceiverError(errorMessage) THEN "throw" ELSE "sleep"

\* A delay that doubles with every turn.
RetryDelayExponential(retryDelayMs, i) == retryDelayMs * 2^i

\* safeSendMessage: the delay slept after the failure on loop index i.
RetryDelay(retryDelayMs, i) == retryDelayMs * (i + 1)

\* A loop bound that is off by one.
LoopsAgainInclusive(i, retries) == i + 1 <= retries

\* safeSendMessage: whether the loop runs again after index i.
LoopsAgain(i, retries) == i + 1 < retries

\* A sendStartWithFastRetry that retries at the top level whatever the frame.
SendStartAlwaysFallback(call, fId) ==
    IF call = 1 THEN "fallback" ELSE "false"

\* A sendStartWithFastRetry whose last failure is rethrown.
SendStartRethrows(call, fId) ==
    IF call = 1 /\ fId # JsUndefined THEN "fallback" ELSE "throw"

\* sendStartWithFastRetry, catch blocks: after a failed call number `call`.
SendStartOnError(call, fId) ==
    IF call = 1 /\ fId # JsUndefined THEN "fallback" ELSE "false"

\* A sendWithFrameFallback that gives up after the first call.
SendResultNoFallback(call, fId) == "false"

\* A sendWithFrameFallback that retries at the top level whatever the frame.
SendResultAlwaysFallback(call, fId) ==
    IF call = 1 THEN "fallback" ELSE "false"

\* sendWithFrameFallback, catch blocks: after a failed call number `call`.
SendResultOnError(call, fId) ==
    IF call = 1 /\ fId # JsUndefined THEN "fallback" ELSE "false"

\* A loop that requests the same endpoint again.
NextEndpointSame(idx) == idx

\* verifyUrlWithAI: the endpoint the for-of loop requests after endpoint idx.
NextEndpoint(idx) == idx + 1

\* fetchWithTimeout: the abort timer is set before fetch is called and
\* cleared in the finally block that runs when the awaited fetch settles.
TimerArmed(at) == at = "fetch"

\* The time an attempt has taken after one more tick: an armed timer fires at
\* BACKEND_TIMEOUT_MS.
Later(elapsed, at) ==
    LET limit == IF TimerArmed(at) THEN BACKEND_TIMEOUT_MS ELSE MaxElapsedMs
    IN  IF elapsed + TickMs < limit THEN elapsed + TickMs ELSE limit

\* verifyUrlWithAI: whether reading data.verdict throws.
PropertyReadThrows(data) == data.t = "null"

\* A record built from the body's fields without the || defaults.
VerdictOfNoDefaults(u, data, now) ==
    [url |-> u, verdict |-> data.verdict, reason |-> data.reason, timestamp |-> now]

\* A record whose url is read from the body.
VerdictOfBodyUrl(u, data, now) ==
    [url |-> JsUndefined,
     verdict |-> JsOr(data.verdict, JsString("UNKNOWN")),
     reason |-> JsOr(data.reason, JsString(DefaultReason)),
     timestamp |-> now]

\* A record whose verdict never comes from the body.
VerdictOfAlwaysUnknown(u, data, now) ==
    [url |-> u,
     verdict |-> JsString("UNKNOWN"),
     reason |-> JsOr(data.reason, JsString(DefaultReason)),
     timestamp |-> now]

\* verifyUrlWithAI: the record returned for a body.
VerdictOf(u, data, now) ==
    [url |-> u,
     verdict |-> JsOr(data.verdict, JsString("UNKNOWN")),
     reason |-> JsOr(data.reason, JsString(DefaultReason)),
     timestamp |-> now]

\* A fallback record that reuses the default reason.
FallbackVerdictDefaultReason(u, now) ==
    [url |-> u,
     verdict |-> JsString("UNKNOWN"),
     reason |-> JsString(DefaultReason),
     timestamp |-> now]

\* verifyUrlWithAI: the record returned when the loop ends.
FallbackVerdict(u, now) ==
    [url |-> u,
     verdict |-> JsString("UNKNOWN"),
     reason |-> JsString(UnreachableReason),
     timestamp |-> now]

\* ------------------------------------------------------- continuations
\* The handler's position after its last statement or its catch.
Finish(cs, ret, how) ==
    /\ pc' = "done"
    /\ sent' = ret
    /\ d' = NoCall
    /\ inflight' = {}
    /\ callLog' = <<>>
    /\ calls' = cs
    /\ outcome' = how
    /\ contacted' = <<>>
    /\ UNCHANGED <<v, issued>>

\* safeSendMessage is entered: loop index 0, the first send is issued.
BeginCall(phase, call, message, retries, fId, delay, cs) ==
    /\ pc' = phase
    /\ d' = [message |-> message, retries |-> retries, tabId |-> tabId, frameId |-> fId,
             retryDelayMs |-> delay, i |-> 0, at |-> "send",
             errorMessage |-> {}, call |-> call]
    /\ inflight' = {Op("send", tabId, fId, message.type, 0)}
    /\ callLog' = <<Ev("send", "", 0)>>
    /\ calls' = cs
    /\ issued' = issued \cup {"send"}
    /\ v' = NoVerify
    /\ contacted' = <<>>
    /\ UNCHANGED <<sent, outcome>>

\* A verifyUrlWithAI entered while the Start send is still in flight.
BeginVerifyUnawaited(cs) ==
    /\ pc' = "verify"
    /\ d' = NoCall
    /\ v' = [idx |-> 1, at |-> "fetch", elapsed |-> 0]
    /\ inflight' = inflight \cup {Op("fetch", JsUndefined, JsUndefined, "", 1)}
    /\ contacted' = <<[endpoint |-> 1, outcome |-> "pending", data |-> NoData, ms |-> 0]>>
    /\ callLog' = <<>>
    /\ calls' = cs
    /\ issued' = issued \cup {"fetch"}
    /\ UNCHANGED <<sent, outcome>>

\* verifyUrlWithAI is entered: the first endpoint is requested.
BeginVerify(cs) ==
    /\ pc' = "verify"
    /\ d' = NoCall
    /\ v' = [idx |-> 1, at |-> "fetch", elapsed |-> 0]
    /\ inflight' = {Op("fetch", JsUndefined, JsUndefined, "", 1)}
    /\ contacted' = <<[endpoint |-> 1, outcome |-> "pending", data |-> NoData, ms |-> 0]>>
    /\ callLog' = <<>>
    /\ calls' = cs
    /\ issued' = issued \cup {"fetch"}
    /\ UNCHANGED <<sent, outcome>>

\* safeSendMessage returns ("ok") or throws (any other res), and its
\* caller goes on.
CallReturns(res, log) ==
    LET cs == Append(calls, [tabId |-> d.tabId, frameId |-> d.frameId,
                             message |-> d.message,
                             retries |-> d.retries, call |-> d.call,
                             outcome |-> res, log |-> log])
    IN  IF pc = "start"
        THEN IF res = "ok" THEN BeginVerify(cs)
             ELSE CASE SendStartOnError(d.call, frameId) = "fallback" ->
                           BeginCall("start", 2, StartMessage, 2, JsUndefined, 60, cs)
                    [] SendStartOnError(d.call, frameId) = "false" ->
                           BeginVerify(cs)
                    [] OTHER -> Finish(cs, "", "caught")
        ELSE IF res = "ok" THEN Finish(cs, "true", "returned")
             ELSE CASE SendResultOnError(d.call, frameId) = "fallback" ->
                           BeginCall("result", 2, d.message, 4, JsUndefined, 300, cs)
                    [] SendResultOnError(d.call, frameId) = "false" ->
                           Finish(cs, "false", "returned")
                    [] OTHER -> Finish(cs, "", "caught")

\* safeSendMessage after the injection: throw, or sleep before the next turn.
AfterInjectStep(errorMessage, log) ==
    IF AfterInject(errorMessage) = "throw"
    THEN CallReturns(FailedToSend, log)
    ELSE /\ d' = [d EXCEPT !.at = "sleep", !.errorMessage = {}]
         /\ inflight' = {}
         /\ callLog' = Append(log, Ev("sleep", "", RetryDelay(d.retryDelayMs, d.i)))
         /\ contacted' = <<>>
         /\ UNCHANGED <<pc, calls, issued, v, sent, outcome>>

\* ------------------------------------------------------------- actions
\* chrome.contextMenus.onClicked: the guards, then ensureContentScriptInjected
\* issues one executeScript per target before any of them settles.
Click(menuItemId, linkUrl, tId, tabUrl, infoFrameId) ==
    /\ pc = "idle"
    /\ IF menuItemId = "verify-link-shield" /\ ToBoolean(linkUrl) /\ ToBoolean(tId)
       THEN IF ~SupportedTabUrl(tabUrl)
            THEN /\ Finish(<<>>, "", "skipped")
                 /\ eligible' = HttpContext(tabUrl)
                 /\ UNCHANGED <<url, tabId, frameId, activated, installed>>
            ELSE /\ eligible' = HttpContext(tabUrl)
                 /\ url' = linkUrl
                 /\ tabId' = tId
                 /\ frameId' = IF infoFrameId.t = "number" THEN infoFrameId ELSE JsUndefined
                 /\ activated' = InjectionTargets(frameId')
                 /\ installed' = {}
                 /\ inflight' = {Op("install", tId, t, "", 0) : t \in InjectionTargets(frameId')}
                 /\ issued' = issued \cup {"install"}
                 /\ pc' = "activate"
                 /\ UNCHANGED <<d, v, callLog, calls, contacted, sent, outcome>>
       ELSE /\ Finish(<<>>, "", "ignored")
            /\ eligible' = HttpContext(tabUrl)
            /\ UNCHANGED <<url, tabId, frameId, activated, installed>>
    /\ offAtClick' = (linkClickEnabled = Stored(FALSE))
    /\ UNCHANGED <<result, popupVars, agentVars, parked>>

\* ensureContentScriptInjected: one executeScript settles; its error is
\* caught.  When the last one has settled, Promise.all resolves and
\* sendStartWithFastRetry makes its first safeSendMessage call.  An error
\* that left the target's callback would reject Promise.all and take the
\* handler to its catch.
ActivateSettled(op, res) ==
    /\ pc = "activate"
    /\ op \in inflight
    /\ IF ~res.ok /\ OnInstallError(res.message) = "throw"
       THEN Finish(<<>>, "", "caught")
       ELSE IF inflight = {op}
       THEN BeginCall("start", 1, StartMessage, 2, frameId, 60, <<>>)
       ELSE /\ inflight' = inflight \ {op}
            /\ UNCHANGED <<pc, d, v, callLog, calls, contacted, issued, sent, outcome>>
    /\ installed' = installed \cup {[frameId |-> op.frameId, res |-> res]}
    /\ UNCHANGED <<url, tabId, frameId, eligible, result, activated>>
    /\ UNCHANGED <<popupVars, offAtClick, agentVars, parked>>

\* safeSendMessage: the awaited sendMessageToTab settles.
SendSettled(res) ==
    /\ pc \in {"start", "result"}
    /\ d.at = "send"
    /\ CASE SendMessageToTab(res) = "resolve" ->
               IF AfterAck(d.i, d.retries) = "return"
               THEN CallReturns("ok", Append(callLog, Ev("ack", "", 0)))
               ELSE /\ d' = [d EXCEPT !.i = d.i + 1]
                    /\ inflight' = {Op("send", d.tabId, d.frameId, d.message.type, 0)}
                    /\ callLog' = callLog \o <<Ev("ack", "", 0), Ev("send", "", 0)>>
                    /\ contacted' = <<>>
                    /\ UNCHANGED <<pc, calls, issued, v, sent, outcome>>
         [] SendMessageToTab(res) = "reject" ->
               LET log == Append(callLog, Ev("error", ErrorClass(res.message), 0))
               IN  CASE OnSendError(res.message, d.i) = "throw" ->
                            CallReturns(Unmessageable, log)
                     [] OnSendError(res.message, d.i) = "inject" /\ ~InstallAwaited ->
                            AfterInjectStep(res.message, Append(log, Ev("install", "", 0)))
                     [] OnSendError(res.message, d.i) = "inject" /\ InstallAwaited ->
                            /\ d' = [d EXCEPT !.at = "inject", !.errorMessage = res.message]
                            /\ inflight' = {Op("install", d.tabId, d.frameId, "", 0)}
                            /\ callLog' = Append(log, Ev("install", "", 0))
                            /\ issued' = issued \cup {"install"}
                            /\ contacted' = <<>>
                            /\ UNCHANGED <<pc, calls, v, sent, outcome>>
                     [] OTHER -> AfterInjectStep(res.message, log)
         [] OTHER ->
               /\ d' = [d EXCEPT !.at = "pending"]
               /\ inflight' = {}
               /\ contacted' = <<>>
               /\ UNCHANGED <<pc, callLog, calls, issued, v, sent, outcome>>
    /\ installed' = {}
    /\ UNCHANGED <<url, tabId, frameId, eligible, result, activated>>
    /\ UNCHANGED <<popupVars, offAtClick, agentVars, parked>>

\* safeSendMessage: the awaited executeScript settles; a rejection is
\* caught and logged.
InjectSettled(res) ==
    /\ pc \in {"start", "result"}
    /\ d.at = "inject"
    /\ AfterInjectStep(ErrorAfterInject(d.errorMessage, res),
           Append(callLog, Ev("installed",
                              IF res.ok THEN "ok" ELSE ErrorClass(res.message), 0)))
    /\ UNCHANGED <<url, tabId, frameId, eligible, result, activated, installed>>
    /\ UNCHANGED <<popupVars, offAtClick, agentVars, parked>>

\* safeSendMessage: the sleep ends; the loop sends again or, past the last
\* index, the call throws.
SleepDone ==
    /\ pc \in {"start", "result"}
    /\ d.at = "sleep"
    /\ LET log == Append(callLog, Ev("wake", "", 0))
       IN  IF LoopsAgain(d.i, d.retries)
           THEN /\ d' = [d EXCEPT !.i = d.i + 1, !.at = "send"]
                /\ inflight' = {Op("send", d.tabId, d.frameId, d.message.type, 0)}
                /\ callLog' = Append(log, Ev("send", "", 0))
                /\ contacted' = <<>>
                /\ UNCHANGED <<pc, calls, issued, v, sent, outcome>>
           ELSE CallReturns(NotResponding, log)
    /\ UNCHANGED <<url, tabId, frameId, eligible, result, activated, installed>>
    /\ UNCHANGED <<popupVars, offAtClick, agentVars, parked>>

\* verifyUrlWithAI returns r, and sendWithFrameFallback makes its first
\* safeSendMessage call with it.
VerifyReturns(r, attempts) ==
    /\ result' = r
    /\ contacted' = attempts
    /\ pc' = "result"
    /\ d' = [message |-> ResultMessage(r), retries |-> 4, tabId |-> tabId, frameId |-> frameId,
             retryDelayMs |-> 300, i |-> 0, at |-> "send",
             errorMessage |-> {}, call |-> 1]
    /\ inflight' = {Op("send", tabId, frameId, "VERIFICATION_RESULT", 0)}
    /\ callLog' = <<Ev("send", "", 0)>>
    /\ calls' = <<>>
    /\ issued' = issued \cup {"send"}
    /\ v' = NoVerify
    /\ UNCHANGED <<sent, outcome>>

\* verifyUrlWithAI, inner catch: the attempt on endpoint v.idx failed; the
\* loop requests the next endpoint or, after the last, returns the fallback.
AttemptFailed(why) ==
    LET attempts == [contacted EXCEPT ![Len(contacted)].outcome = why,
                                      ![Len(contacted)].ms = v.elapsed]
    IN  IF v.idx < Len(BACKEND_URLS)
        THEN /\ v' = [idx |-> NextEndpoint(v.idx), at |-> "fetch", elapsed |-> 0]
             /\ inflight' = {Op("fetch", JsUndefined, JsUndefined, "", NextEndpoint(v.idx))}
             /\ contacted' = Append(attempts, [endpoint |-> NextEndpoint(v.idx),
                                               outcome |-> "pending", data |-> NoData,
                                               ms |-> 0])
             /\ UNCHANGED <<pc, d, result, callLog, calls, issued, sent, outcome>>
        ELSE \E now \in 1..MaxTime : VerifyReturns(FallbackVerdict(url, now), attempts)

\* Time passes while an endpoint attempt is awaited.  With the timer armed
\* the attempt does not outlast BACKEND_TIMEOUT_MS: the timer aborts the fetch.
TimePasses ==
    /\ pc = "verify"
    /\ v.elapsed < (IF TimerArmed(v.at) THEN BACKEND_TIMEOUT_MS ELSE MaxElapsedMs)
    /\ v' = [v EXCEPT !.elapsed = Later(v.elapsed, v.at)]
    /\ UNCHANGED <<pc, url, tabId, frameId, eligible, d, result, inflight, callLog,
                   calls, contacted, activated, installed, issued, sent, outcome>>
    /\ UNCHANGED <<popupVars, offAtClick, agentVars, parked>>

\* fetchWithTimeout: the awaited fetch settles; it rejects with an AbortError
\* only once the timer has fired.
FetchSettled(o) ==
    /\ pc = "verify"
    /\ v.at = "fetch"
    /\ o = "abort" => TimerArmed(v.at) /\ v.elapsed >= BACKEND_TIMEOUT_MS
    /\ IF o = "ok"
       THEN /\ v' = [v EXCEPT !.at = "json"]
            /\ inflight' = {Op("json", JsUndefined, JsUndefined, "", v.idx)}
            /\ UNCHANGED <<pc, d, result, callLog, calls, contacted, issued, sent, outcome>>
       ELSE AttemptFailed(o)
    /\ UNCHANGED <<url, tabId, frameId, eligible, activated, installed>>
    /\ UNCHANGED <<popupVars, offAtClick, agentVars, parked>>

\* verifyUrlWithAI: the awaited response.json() settles.
JsonSettled(o) ==
    /\ pc = "verify"
    /\ v.at = "json"
    /\ IF ~o.ok
       THEN AttemptFailed("syntaxError")
       ELSE IF PropertyReadThrows(o.data)
       THEN AttemptFailed("typeError")
       ELSE \E now \in 1..MaxTime :
                VerifyReturns(VerdictOf(url, o.data, now),
                    [contacted EXCEPT ![Len(contacted)] =
                        [endpoint |-> v.idx, outcome |-> "ok", data |-> o.data,
                         ms |-> v.elapsed]])
    /\ UNCHANGED <<url, tabId, frameId, eligible, activated, installed>>
    /\ UNCHANGED <<popupVars, offAtClick, agentVars, parked>>

\* ------------------------------------------------------------- the popup
\* App, first effect: the popup is opened; the stored key is read, isEnabled
\* is set from it (true when absent), and an absent key is stored as true.
PopupOpened ==
    /\ ~popup.open
    /\ popup' = [open |-> TRUE,
                 isEnabled |-> IF linkClickEnabled.present
                               THEN linkClickEnabled.value ELSE TRUE]
    /\ linkClickEnabled' = IF linkClickEnabled.present THEN linkClickEnabled
                           ELSE Stored(TRUE)
    /\ UNCHANGED <<workerVars, offAtClick, agentVars, parked>>

\* App, toggleEnabled: the switch is pressed.
ToggleEnabled ==
    /\ popup.open
    /\ popup' = [popup EXCEPT !.isEnabled = ~popup.isEnabled]
    /\ linkClickEnabled' = Stored(~popup.isEnabled)
    /\ UNCHANGED <<workerVars, offAtClick, agentVars, parked>>

\* The popup is closed; its component state is discarded.
PopupClosed ==
    /\ popup.open
    /\ popup' = Closed
    /\ UNCHANGED <<workerVars, linkClickEnabled, offAtClick, agentVars, parked>>

\* ----------------------------------------------------- the content script
\* A guard that never finds the script installed.
AlreadyInstalledNever(a) == FALSE

\* initShieldContentScript: the test of window.__shieldContentScriptReady.
AlreadyInstalled(a) == a.ready

\* hideRoot: the root exists afterwards, hidden and empty.
hideRoot(a) == [a EXCEPT !.display = "none", !.html = "", !.card = NoCard]

\* A score table whose lowest entry is 0.
verdictScoreFromZero(verdict) ==
    CASE verdict = JsString("SAFE")       -> 9
      [] verdict = JsString("SUSPICIOUS") -> 4
      [] verdict = JsString("DANGER")     -> 0
      [] OTHER                            -> 5

verdictScore(verdict) ==
    CASE verdict = JsString("SAFE")       -> 9
      [] verdict = JsString("SUSPICIOUS") -> 4
      [] verdict = JsString("DANGER")     -> 1
      [] OTHER                            -> 5

\* renderResult: the score is the payload's risk_score, rounded and clamped
\* to 0..10, when the payload has a number there, else verdictScore.
Score(payload) ==
    IF "risk_score" \in DOMAIN payload
    THEN IF payload.risk_score < 0 THEN 0
         ELSE IF payload.risk_score > 10 THEN 10
         ELSE payload.risk_score
    ELSE verdictScore(payload.verdict)

Card(payload) ==
    [score |-> Score(payload),
     verdict |-> IF ToBoolean(payload.verdict) THEN payload.verdict
                 ELSE JsString("UNKNOWN"),
     reason |-> IF ToBoolean(payload.reason) THEN payload.reason
                ELSE JsString("No details available.")]

renderLoading(a) == [a EXCEPT !.display = "block", !.html = "loading", !.card = NoCard]

\* renderResult: the card is shown, the dismiss timer is cleared and set anew.
renderResult(a, payload) ==
    [a EXCEPT !.display = "block", !.html = "result", !.card = Card(payload),
              !.timer = TRUE]

\* A listener that renders before it answers.
ListenerStepsRenderFirst(message) == <<"render", "sendResponse">>

\* The onMessage listener: sendResponse({status: 'ok'}) is its first
\* statement, for every message; the rendering follows.
ListenerSteps(message) == <<"sendResponse", "render">>

\* Whether the listener renders the message at all.
Renders(message) == message.type \in {"VERIFICATION_START", "VERIFICATION_RESULT"}

\* Whether the listener has called sendResponse when it ends; threw says
\* that its render step threw, which ends the listener there.
Acknowledged(steps, threw) ==
    \E i \in 1..Len(steps) :
        /\ steps[i] = "sendResponse"
        /\ threw => \A j \in 1..(i - 1) : steps[j] # "render"

\* renderLoading or renderResult throws when it assigns root.innerHTML:
\* showRoot has made the root visible, its content and the timer are as
\* they were.
RenderFails(a) == [a EXCEPT !.display = "block"]

\* The rendering of the onMessage listener.
OnMessage(a, message) ==
    IF message.type = "VERIFICATION_START" THEN renderLoading(a)
    ELSE IF message.type = "VERIFICATION_RESULT" THEN renderResult(a, message.payload)
    ELSE a

\* The records verifyUrlWithAI can return, and the messages the service
\* worker sends with them.
Verdicts ==
    {VerdictOf(u, b, now) : u \in {l \in LinkUrls : ToBoolean(l)},
                            b \in {x \in ResponseBodies : ~PropertyReadThrows(x)},
                            now \in 1..MaxTime}
    \cup {FallbackVerdict(u, now) : u \in {l \in LinkUrls : ToBoolean(l)},
                                    now \in 1..MaxTime}
WorkerMessages == {StartMessage} \cup {ResultMessage(r) : r \in Verdicts}

\* A message of a type the listener does not know.
OtherMessage == [type |-> "OTHER", payload |-> NoResult]

\* chrome.scripting.executeScript runs content.js in scope s.
AgentInstall(s) ==
    /\ IF AlreadyInstalled(agent[s])
       THEN /\ agent' = agent
            /\ last' = Happened("reinstall", s, 0)
       ELSE /\ agent' = [agent EXCEPT ![s] =
                             hideRoot([@ EXCEPT !.ready = TRUE,
                                                !.listeners = @ + 1])]
            /\ last' = Happened("install", s, 0)
    /\ UNCHANGED <<workerVars, popupVars, offAtClick, parked>>

\* A message reaches scope s: every registered listener answers and renders
\* it.  With fails the page makes the rendering throw.
AgentReceives(s, message, fails) ==
    /\ agent[s].listeners >= 1
    /\ fails => Renders(message)
    /\ agent' = [agent EXCEPT ![s] = IF fails THEN RenderFails(@)
                                     ELSE OnMessage(@, message)]
    /\ last' = Delivered(message.type, s, agent[s].listeners,
                         Acknowledged(ListenerSteps(message), fails), fails)
    /\ UNCHANGED <<workerVars, popupVars, offAtClick, parked>>

\* The dismiss timer of scope s fires: hideRoot.
DismissFires(s) ==
    /\ agent[s].timer
    /\ agent' = [agent EXCEPT ![s] = hideRoot([@ EXCEPT !.timer = FALSE,
                                                         !.dismissed = agent[s].html])]
    /\ last' = Happened("dismiss", s, 0)
    /\ UNCHANGED <<workerVars, popupVars, offAtClick, parked>>

AgentNext ==
    \/ \E s \in Scopes : AgentInstall(s)
    \/ \E s \in Scopes, m \in WorkerMessages \cup {OtherMessage}, fails \in BOOLEAN :
           AgentReceives(s, m, fails)
    \/ \E s \in Scopes : DismissFires(s)

\* The content scripts of one page, given what the service worker sends.
AgentSpec == Init /\ [][AgentNext]_vars

Next ==
    \/ \E m \in MenuItemIds, l \in LinkUrls, t \in TabIds, u \in TabUrls, f \in InfoFrameIds :
           Click(m, l, t, u, f)
    \/ \E op \in inflight, res \in InstallOutcomes : ActivateSettled(op, res)
    \/ \E res \in SendOutcomes : SendSettled(res)
    \/ \E res \in InstallOutcomes : InjectSettled(res)
    \/ SleepDone
    \/ TimePasses
    \/ \E o \in FetchOutcomes : FetchSettled(o)
    \/ \E o \in JsonOutcomes : JsonSettled(o)

Spec == Init /\ [][Next]_vars

\* A step that resumes the handler: an awaited executeScript, sendMessage,
\* fetch or body read settles, or the timer of a sleep fires.  The handler
\* awaits one thing at a time, except in ensureContentScriptInjected.
Settle ==
    \/ \E op \in inflight, res \in InstallOutcomes : ActivateSettled(op, res)
    \/ \E res \in SendOutcomes : SendSettled(res)
    \/ \E res \in InstallOutcomes : InjectSettled(res)
    \/ SleepDone
    \/ \E o \in FetchOutcomes : FetchSettled(o)
    \/ \E o \in JsonOutcomes : JsonSettled(o)

\* The host settles every operation it was given and fires every timer.
\* A right-click on one link of one tab, in any of the given frames.
ClickOn(frames) ==
    \E m \in MenuItemIds, u \in TabUrls, f \in frames :
        Click(m, JsString("http://evil.test/login"), JsNumber("7"), u, f)

\* The click is raised in the top frame or in frame 1.
LiveNext ==
    \/ ClickOn({JsUndefined, JsNumber("1")})
    \/ TimePasses
    \/ Settle

LiveSpec == Init /\ [][LiveNext]_vars /\ WF_vars(Settle)

\* The popup and the service worker: the switch may be pressed at any time,
\* and a link of the top frame is right-clicked.
ToggleNext ==
    \/ PopupOpened
    \/ ToggleEnabled
    \/ PopupClosed
    \/ ClickOn({JsUndefined})
    \/ TimePasses
    \/ Settle

ToggleSpec == Init /\ [][ToggleNext]_vars

\* A module-level variable for the verdict, written by every invocation.
InvocationLocalButResult ==
    {"pc", "url", "tabId", "frameId", "eligible", "d", "v", "inflight", "callLog",
     "calls", "contacted", "activated", "installed", "issued", "sent", "outcome"}

\* The service worker and verifyUrlWithAI declare no module-level variable
\* that is written after load: url, frameId and result are constants of the
\* handler's block, i, errorMessage and lastError are locals of the calls.
InvocationLocal ==
    {"pc", "url", "tabId", "frameId", "eligible", "d", "v", "result", "inflight",
     "callLog", "calls", "contacted", "activated", "installed", "issued", "sent",
     "outcome"}

\* What an invocation finds in a variable when the event loop resumes it:
\* its own value when the variable is its own, else what the invocation
\* that ran before it left there.
Resumed(name, left, own) == IF name \in InvocationLocal THEN own ELSE left

\* The event loop turns from one invocation of the click handler to the
\* other: the first is suspended at its await, the second goes on where
\* it was.
Switch ==
    /\ pc # "idle"
    /\ parked.pc # "done"
    /\ parked' = Locals
    /\ pc' = Resumed("pc", pc, parked.pc)
    /\ url' = Resumed("url", url, parked.url)
    /\ tabId' = Resumed("tabId", tabId, parked.tabId)
    /\ frameId' = Resumed("frameId", frameId, parked.frameId)
    /\ eligible' = Resumed("eligible", eligible, parked.eligible)
    /\ d' = Resumed("d", d, parked.d)
    /\ v' = Resumed("v", v, parked.v)
    /\ result' = Resumed("result", result, parked.result)
    /\ inflight' = Resumed("inflight", inflight, parked.inflight)
    /\ callLog' = Resumed("callLog", callLog, parked.callLog)
    /\ calls' = Resumed("calls", calls, parked.calls)
    /\ contacted' = Resumed("contacted", contacted, parked.contacted)
    /\ activated' = Resumed("activated", activated, parked.activated)
    /\ installed' = Resumed("installed", installed, parked.installed)
    /\ issued' = Resumed("issued", issued, parked.issued)
    /\ sent' = Resumed("sent", sent, parked.sent)
    /\ outcome' = Resumed("outcome", outcome, parked.outcome)
    /\ UNCHANGED <<popupVars, offAtClick, agentVars>>

\* The links of two right-clicks that may be handled at the same time.
ConcurrentLinks == {JsString("http://evil.test/login"), JsString("https://example.org/")}

\* A host whose tab has a listener or lacks one, whose installs succeed, and
\* endpoints that answer DANGER, answer with no JSON, or cannot be reached.
ConcurrentSends == {Settled(TRUE, {}), Settled(FALSE, MsgNoReceiver)}
ConcurrentFetches == {"ok", "networkError"}
ConcurrentBodies ==
    {JsonSettles(FALSE, NoData),
     JsonSettles(TRUE, JsonObject(JsString("DANGER"), JsString("Known phishing host.")))}

\* Two right-clicks on links of one tab, handled by two invocations of the
\* click handler that the event loop interleaves at their awaits.
ConcurrentNext ==
    \/ \E l \in ConcurrentLinks, f \in {JsUndefined, JsNumber("1")} :
           Click("verify-link-shield", l, JsNumber("7"), TabUrl(TRUE, <<"h","t","t","p",":","/","/","a">>), f)
    \/ Switch
    \/ \E op \in inflight : ActivateSettled(op, Settled(TRUE, {}))
    \/ \E res \in ConcurrentSends : SendSettled(res)
    \/ InjectSettled(Settled(TRUE, {}))
    \/ SleepDone
    \/ \E o \in ConcurrentFetches : FetchSettled(o)
    \/ \E o \in ConcurrentBodies : JsonSettled(o)

ConcurrentSpec == Init /\ [][ConcurrentNext]_vars

\* ------------------------------------------------------------ the claims
Count(log, e) == Cardinality({k \in 1..Len(log) : log[k].e = e})
ErrorsOf(log) == {log[k].c : k \in {j \in 1..Len(log) : log[j].e = "error"}}
VerifyReturned == pc = "result" /\ contacted # <<>>

\* C1: verifyUrlWithAI never rejects: whatever the outcomes of its endpoint
\* attempts, the handler resumes after it with a record that carries the
\* clicked url, a verdict, a reason and a timestamp.
C1_VerifyAlwaysReturnsVerdict ==
    /\ outcome # "caught"
    /\ pc = "verify" => result = NoResult
    /\ (pc = "result" \/ (pc = "done" /\ "fetch" \in issued)) =>
          /\ DOMAIN result = {"url", "verdict", "reason", "timestamp"}
          /\ result.url = url
          /\ result.verdict # JsUndefined
          /\ result.reason # JsUndefined
          /\ result.timestamp \in 1..MaxTime

\* C1 witness: verify has returned after a body that parsed to null at the
\* first endpoint and an abort on timeout at the second.
C1_Witness ==
    /\ VerifyReturned
    /\ Len(contacted) = 2
    /\ contacted[1].outcome = "typeError"
    /\ contacted[2].outcome = "abort"
    /\ result.verdict = JsString("UNKNOWN")

\* C2 as stated: endpoints are contacted in list order one at a time, and
\* once an endpoint has answered with a success status and a parseable body
\* (JSON null included) no later endpoint is contacted.
C2_Original ==
    /\ \A k \in 1..Len(contacted) : contacted[k].endpoint = k
    /\ \A k \in 1..Len(contacted) :
          contacted[k].outcome \in {"ok", "typeError"} => Len(contacted) = k

\* C2 amended: endpoints are contacted in list order, one at a time; verify
\* returns the verdict of the first endpoint that answers with a success
\* status and a body that parses to a value other than null, and contacts no
\* later endpoint; a body that parses to null counts as a failed attempt.
C2_FirstNonNullAnswerWins ==
    /\ \A k \in 1..Len(contacted) : contacted[k].endpoint = k
    /\ Len(contacted) <= Len(BACKEND_URLS)
    /\ pc = "verify" =>
          /\ Cardinality(inflight) = 1
          /\ \A op \in inflight : op.endpoint = Len(contacted)
          /\ contacted[Len(contacted)].outcome = "pending"
    /\ \A k \in 1..Len(contacted) :
          /\ contacted[k].outcome = "ok" =>
                /\ k = Len(contacted)
                /\ pc = "result"
                /\ contacted[k].data.t # "null"
                /\ (contacted[k].data.verdict.t = "string" /\
                    contacted[k].data.verdict.v \in SafetyVerdict)
                      => result.verdict = contacted[k].data.verdict
          /\ k < Len(contacted) => contacted[k].outcome \notin {"ok", "pending"}

\* C2 witness: the first endpoint failed and the second answered SAFE.
C2_Witness ==
    /\ VerifyReturned
    /\ Len(contacted) = 2
    /\ contacted[1].outcome = "networkError"
    /\ contacted[2].outcome = "ok"
    /\ result.verdict = JsString("SAFE")

\* C3: when every endpoint attempt failed, the verdict is UNKNOWN with the
\* fixed unreachable text, which is not the default reason given to a
\* successful response that carries no reason.
C3_TotalFailureIsUnknownUnreachable ==
    VerifyReturned =>
        /\ (\A k \in 1..Len(contacted) : contacted[k].outcome # "ok") =>
              /\ result.verdict = JsString("UNKNOWN")
              /\ result.reason = JsString(UnreachableReason)
              /\ result.reason # JsString(DefaultReason)
        /\ (/\ contacted[Len(contacted)].outcome = "ok"
            /\ ~ToBoolean(contacted[Len(contacted)].data.reason)) =>
              /\ result.reason = JsString(DefaultReason)
              /\ result.reason # JsString(UnreachableReason)

\* C3 witness: both endpoints failed, one on connection and one on timeout.
C3_Witness ==
    /\ VerifyReturned
    /\ Len(contacted) = 2
    /\ contacted[1].outcome = "networkError"
    /\ contacted[2].outcome = "abort"
    /\ result.reason = JsString(UnreachableReason)

\* C4: every Verdict verify returns has its classification in
\* {SAFE, SUSPICIOUS, DANGER, UNKNOWN}; a response whose verdict field is
\* outside that set yields UNKNOWN.
C4_ClassificationIsNormalized ==
    (pc \in {"result", "done"} /\ result # NoResult) =>
        /\ result.verdict.t = "string"
        /\ result.verdict.v \in SafetyVerdict

\* C5: a safeSendMessage call with retries = n whose every send failed with a
\* listener-absent error has made exactly n sends and thrown; no call makes
\* more than n sends.
C5_ExactlyNSends ==
    /\ Count(callLog, "send") <= d.retries
    /\ \A k \in 1..Len(calls) :
          /\ Count(calls[k].log, "send") <= calls[k].retries
          /\ (Count(calls[k].log, "ack") = 0 /\ ErrorsOf(calls[k].log) = {"ListenerAbsent"}) =>
                /\ Count(calls[k].log, "send") = calls[k].retries
                /\ calls[k].outcome = NotResponding

\* C5 witness: a call with retries = 4 ended after four listener-absent sends.
C5_Witness ==
    /\ pc = "done"
    /\ Len(calls) = 1
    /\ calls[1].retries = 4
    /\ ErrorsOf(calls[1].log) = {"ListenerAbsent"}
    /\ Count(calls[1].log, "send") = 4
    /\ calls[1].outcome = NotResponding

\* C6: a scope-ineligible send error ends the safeSendMessage call at once:
\* it is the last entry of the call's record (no send, install or sleep
\* follows it) and the call has thrown.
C6_IneligibleEndsCall ==
    /\ "ScopeIneligible" \notin ErrorsOf(callLog)
    /\ \A k \in 1..Len(calls) : \A j \in 1..Len(calls[k].log) :
          calls[k].log[j] = Ev("error", "ScopeIneligible", 0) =>
              /\ j = Len(calls[k].log)
              /\ calls[k].outcome = Unmessageable

\* C6 witness: a call ended by a scope-ineligible error on its second send.
C6_Witness ==
    \E k \in 1..Len(calls) :
        /\ Count(calls[k].log, "send") = 2
        /\ calls[k].log[Len(calls[k].log)] = Ev("error", "ScopeIneligible", 0)
        /\ calls[k].outcome = Unmessageable

\* C7: sendWithFrameFallback with a frame id: when the call to the frame
\* failed, exactly one further call is made, to the same tab without a frame
\* id and with the same message; it returns true iff a call was acknowledged.
C7_OneFallbackToTop ==
    (pc = "done" /\ outcome = "returned" /\ frameId # JsUndefined) =>
        /\ Len(calls) \in {1, 2}
        /\ calls[1].frameId = frameId
        /\ calls[1].tabId = tabId
        /\ calls[1].outcome = "ok" => Len(calls) = 1
        /\ calls[1].outcome # "ok" =>
              /\ Len(calls) = 2
              /\ calls[2].frameId = JsUndefined
              /\ calls[2].tabId = calls[1].tabId
              /\ calls[2].message = calls[1].message
        /\ sent = "true" <=> \E k \in 1..Len(calls) : Count(calls[k].log, "ack") > 0
        /\ sent \in {"true", "false"}

\* C7 witness: the frame was scope-ineligible and the top-level call was
\* acknowledged.
C7_Witness ==
    /\ pc = "done"
    /\ frameId = JsNumber("1")
    /\ Len(calls) = 2
    /\ calls[1].outcome = Unmessageable
    /\ calls[2].outcome = "ok"
    /\ sent = "true"

\* The Result sends addressed to frame f that were acknowledged.
Observed(f) ==
    Cardinality({k \in 1..Len(calls) : calls[k].frameId = f /\ Count(calls[k].log, "ack") > 0})
SendsTo(f) == {k \in 1..Len(calls) : calls[k].frameId = f}

\* C8: when every send to the frame was listener-absent and every send to
\* the top level was acknowledged, sendWithFrameFallback returns true and
\* the command was acknowledged once at the top level and never at the frame.
C8_FallbackDeliversOnce ==
    (/\ pc = "done" /\ outcome = "returned" /\ frameId # JsUndefined
     /\ \A k \in SendsTo(frameId) : Count(calls[k].log, "ack") = 0
                                   /\ ErrorsOf(calls[k].log) = {"ListenerAbsent"}
     /\ \A k \in SendsTo(JsUndefined) : ErrorsOf(calls[k].log) = {}) =>
        /\ sent = "true"
        /\ Observed(JsUndefined) = 1
        /\ Observed(frameId) = 0
        /\ Count(calls[2].log, "send") = 1

\* C8 witness: four listener-absent sends to frame 1, then one acknowledged
\* send to the top level.
C8_Witness ==
    /\ pc = "done"
    /\ frameId = JsNumber("1")
    /\ Len(calls) = 2
    /\ Count(calls[1].log, "send") = 4
    /\ calls[1].outcome = NotResponding
    /\ calls[2].log = <<Ev("send", "", 0), Ev("ack", "", 0)>>
    /\ sent = "true"

\* C9: a click on an http(s) tab never ends in the handler's catch: verify
\* is invoked and the Result delivery is attempted whatever the installs and
\* the Start sends did.
C9_RunAlwaysVerifiesAndReports ==
    /\ pc = "result" => result # NoResult
    /\ (pc = "done" /\ eligible /\ outcome # "ignored") =>
          /\ outcome = "returned"
          /\ "fetch" \in issued
          /\ result # NoResult
          /\ Len(calls) >= 1
          /\ \A k \in 1..Len(calls) :
                /\ calls[k].message = ResultMessage(result)
                /\ Count(calls[k].log, "send") >= 1

\* C9 witness: the handler is done after both Result calls were refused as
\* scope-ineligible.
C9_Witness ==
    /\ pc = "done"
    /\ eligible
    /\ frameId = JsNumber("1")
    /\ Len(calls) = 2
    /\ calls[1].outcome = Unmessageable
    /\ calls[2].outcome = Unmessageable
    /\ result # NoResult

\* C10: a click on a tab whose URL is absent or not http(s) issues no
\* install, no send and no endpoint request.
C10_IneligibleDoesNothing ==
    ~eligible =>
        /\ issued = {}
        /\ inflight = {}
        /\ activated = {}
        /\ calls = <<>>
        /\ callLog = <<>>
        /\ contacted = <<>>
        /\ result = NoResult

\* C10 witness: the handler skipped a click on an unsupported tab.
C10_Witness ==
    /\ pc = "done"
    /\ outcome = "skipped"
    /\ ~eligible

\* C11: the steps of a run follow one another: while the installs of the
\* activation are in flight nothing was sent; a Start send is in flight only
\* in the Start step, before any endpoint request; an endpoint request is in
\* flight only after the Start delivery ended and before the Verdict exists;
\* a Result send is in flight only once verify has returned its Verdict.
C11_StepsInOrder ==
    /\ pc \in {"idle", "done"} => inflight = {}
    /\ pc = "activate" =>
          /\ inflight # {}
          /\ \A op \in inflight : op.kind = "install"
          /\ issued = {"install"}
          /\ d = NoCall /\ v = NoVerify /\ result = NoResult
    /\ pc = "start" =>
          /\ \A op \in inflight :
                \/ op.kind = "install"
                \/ op.kind = "send" /\ op.type = "VERIFICATION_START"
          /\ "fetch" \notin issued
          /\ d.message = StartMessage
          /\ v = NoVerify /\ result = NoResult
    /\ pc = "verify" =>
          /\ inflight # {}
          /\ \A op \in inflight : op.kind \in {"fetch", "json"}
          /\ d = NoCall
          /\ result = NoResult
    /\ pc = "result" =>
          /\ \A op \in inflight :
                \/ op.kind = "install"
                \/ op.kind = "send" /\ op.type = "VERIFICATION_RESULT"
          /\ issued = {"install", "send", "fetch"}
          /\ result # NoResult
          /\ d.message = ResultMessage(result)
          /\ v = NoVerify

\* C11 witness: the first Result send to the frame is in flight after
\* verify tried both endpoints.
C11_Witness ==
    /\ pc = "result"
    /\ inflight = {Op("send", tabId, frameId, "VERIFICATION_RESULT", 0)}
    /\ frameId = JsNumber("1")
    /\ Len(contacted) = 2
    /\ contacted[2].outcome = "ok"
    /\ callLog = <<Ev("send", "", 0)>>

\* The answer of the endpoint that verify returned on, if any.
Answered == {k \in 1..Len(contacted) : contacted[k].outcome = "ok"}

C14_ReasonIsNonEmptyString ==
    (pc \in {"result", "done"} /\ result # NoResult) =>
        /\ result.reason.t = "string"
        /\ result.reason.v # ""

\* C18: sendWithFrameFallback never throws: without a frame id a failed call
\* is the only call and false is returned; with a frame id, false is
\* returned when the top-level call failed too.
C18_FallbackReturnsFalse ==
    /\ outcome # "caught"
    /\ (pc = "done" /\ outcome = "returned") =>
          /\ sent \in {"true", "false"}
          /\ (frameId = JsUndefined /\ calls[1].outcome # "ok") =>
                /\ Len(calls) = 1
                /\ sent = "false"
          /\ (frameId # JsUndefined /\ calls[1].outcome # "ok"
                                    /\ calls[Len(calls)].outcome # "ok") =>
                /\ Len(calls) = 2
                /\ sent = "false"

\* C18 witness: without a frame id the only call failed after four sends.
C18_Witness ==
    /\ pc = "done"
    /\ frameId = JsUndefined
    /\ Len(calls) = 1
    /\ calls[1].outcome = NotResponding
    /\ sent = "false"

EndedIneligible(c) == c.log[Len(c.log)] = Ev("error", "ScopeIneligible", 0)
EndedExhausted(c) ==
    /\ Count(c.log, "ack") = 0
    /\ ErrorsOf(c.log) = {"ListenerAbsent"}
    /\ Count(c.log, "send") = c.retries

\* C19: the error safeSendMessage throws for a scope-ineligible send differs
\* from the one it throws after retries listener-absent sends, and neither
\* is its normal return.
C19_FailuresDistinct ==
    \A j, k \in 1..Len(calls) :
        /\ EndedIneligible(calls[j]) => calls[j].outcome \notin {"ok", FailedToSend}
        /\ EndedExhausted(calls[k]) => calls[k].outcome \notin {"ok", FailedToSend}
        /\ (EndedIneligible(calls[j]) /\ EndedExhausted(calls[k])) =>
              calls[j].outcome # calls[k].outcome

\* C19 witness: the call to the frame ran out of retries and the call to the
\* top level was refused as scope-ineligible.
C19_Witness ==
    /\ pc = "done"
    /\ Len(calls) = 2
    /\ EndedExhausted(calls[1])
    /\ EndedIneligible(calls[2])
    /\ calls[1].retries = 4

\* The time verifyUrlWithAI took: the sum over its attempts.
RECURSIVE TotalMs(_)
TotalMs(attempts) ==
    IF attempts = <<>> THEN 0
    ELSE attempts[1].ms + TotalMs(Tail(attempts))

\* C15: an endpoint attempt, from the request to the parsed body, never
\* outlasts BACKEND_TIMEOUT_MS, and verifyUrlWithAI returns within
\* BACKEND_TIMEOUT_MS times the number of endpoints.
C15_AttemptIsBounded ==
    /\ pc = "verify" => v.elapsed <= BACKEND_TIMEOUT_MS
    /\ VerifyReturned => TotalMs(contacted) <= BACKEND_TIMEOUT_MS * Len(BACKEND_URLS)

\* C20: under LiveSpec, where every install, send, endpoint request, body
\* read and sleep settles, a run started on an eligible context ends.
C20_RunTerminates ==
    (eligible /\ pc \in {"activate", "start", "verify", "result"}) ~> (pc = "done")

\* C20 witness: a run on an eligible context has ended after both Result
\* calls used all four sends.
C20_Witness ==
    /\ pc = "done"
    /\ eligible
    /\ outcome = "returned"
    /\ Len(calls) = 2
    /\ \A k \in 1..2 : calls[k].retries = 4 /\ Count(calls[k].log, "wake") = 4

\* C16: a right-click raised while the stored linkClickEnabled is false
\* starts no verification: no install, no send and no endpoint request is
\* issued for it.
C16_OffStartsNothing ==
    offAtClick => issued = {} /\ inflight = {} /\ pc = "done"

\* C12: running content.js again in a scope where it already ran changes
\* nothing: a scope it ran in has exactly one listener however often it was
\* installed, a repeated install leaves the scope's overlay as it was, and
\* every delivered message is rendered by one listener.
C12_ReinstallIsNoOp ==
    /\ [](/\ \A s \in Scopes : agent[s].listeners = (IF agent[s].ready THEN 1 ELSE 0)
          /\ last.kind \in {"VERIFICATION_START", "VERIFICATION_RESULT"} =>
                last.rendered = 1)
    /\ [][last'.kind = "reinstall" => agent' = agent /\ agent[last'.scope].ready]_vars

\* C12 witness: content.js was run again in the frame while the frame showed
\* a result card with its dismiss timer pending.
C12_Witness ==
    /\ last = Happened("reinstall", JsNumber("1"), 0)
    /\ agent[JsNumber("1")].listeners = 1
    /\ agent[JsNumber("1")].display = "block"
    /\ agent[JsNumber("1")].html = "result"
    /\ agent[JsNumber("1")].timer

\* C17: the score of every result card shown is an integer from 1 to 10.
C17_ScoreInRange ==
    \A s \in Scopes :
        agent[s].html = "result" => agent[s].card.score \in 1..10

\* C17 witness: a result with a verdict outside the enumeration is shown
\* with score 5, after a DANGER result was shown with score 1 in the frame.
C17_Witness ==
    /\ agent[JsUndefined].html = "result"
    /\ agent[JsUndefined].card.verdict = JsString("MALFORMED_VALUE")
    /\ agent[JsUndefined].card.score = 5
    /\ agent[JsNumber("1")].html = "result"
    /\ agent[JsNumber("1")].card.verdict = JsString("DANGER")
    /\ agent[JsNumber("1")].card.score = 1

\* The records of the safeSendMessage calls of the current step: the
\* finished ones and the running one.
FinishedLogs == {calls[k].log : k \in 1..Len(calls)}
Logs == FinishedLogs \cup {callLog}
LA == Ev("error", "ListenerAbsent", 0)

\* C21: a safeSendMessage call ends with its first acknowledged send: the
\* acknowledgment is the last entry of the call's record, so no send, install
\* or sleep follows it, the call returns normally, and no call is
\* acknowledged twice.
C21_AckEndsCall ==
    /\ Count(callLog, "ack") = 0
    /\ \A k \in 1..Len(calls) :
          LET log == calls[k].log
          IN  /\ Count(log, "ack") <= 1
              /\ \A j \in 1..Len(log) : log[j].e = "ack" => j = Len(log)
              /\ calls[k].outcome = "ok" <=> log[Len(log)].e = "ack"

\* C21 witness: the second send of a Result call was acknowledged after the
\* first one failed, and the call's record ends there.
C21_Witness ==
    /\ pc = "done"
    /\ Len(calls) = 1
    /\ calls[1].outcome = "ok"
    /\ calls[1].log = <<Ev("send", "", 0), LA, Ev("install", "", 0),
                        Ev("installed", "ok", 0), Ev("sleep", "", 300),
                        Ev("wake", "", 0), Ev("send", "", 0), Ev("ack", "", 0)>>

Sleeps(log) == SelectSeq(log, LAMBDA ev : ev.e = "sleep")
BaseBackoff(type) == IF type = "VERIFICATION_START" THEN 60 ELSE 300

\* C22: the k-th sleep of a safeSendMessage call lasts k times the call's
\* retryDelayMs (60 for Start, 300 for Result).
C22_BackoffIsLinear ==
    /\ \A j \in 1..Len(Sleeps(callLog)) :
          Sleeps(callLog)[j].ms = j * BaseBackoff(d.message.type)
    /\ \A k \in 1..Len(calls) : \A j \in 1..Len(Sleeps(calls[k].log)) :
          Sleeps(calls[k].log)[j].ms = j * BaseBackoff(calls[k].message.type)

\* C22 witness: a Result call slept 300, 600 and 900 ms before its fourth
\* send was acknowledged.
C22_Witness ==
    /\ pc = "done"
    /\ Len(calls) = 1
    /\ calls[1].outcome = "ok"
    /\ Sleeps(calls[1].log) =
          <<Ev("sleep", "", 300), Ev("sleep", "", 600), Ev("sleep", "", 900)>>

\* C23: every sleep of a safeSendMessage call is followed by a send of that
\* call, and a call whose retries sends all failed has slept retries - 1
\* times.
C23_SleepOnlyBeforeSend ==
    \A k \in 1..Len(calls) :
        LET log == calls[k].log
        IN  /\ \A j \in 1..Len(log) :
                  log[j].e = "wake" => j < Len(log) /\ log[j + 1].e = "send"
            /\ (Count(log, "error") = calls[k].retries) =>
                  Count(log, "sleep") = calls[k].retries - 1

\* C24: a safeSendMessage call asks for at most one install, only right
\* after its first send failed with a listener-absent error, and for the
\* tab and frame of the send.
C24_InstallOnlyWhenListenerAbsent ==
    /\ \A log \in Logs :
          /\ Count(log, "install") <= 1
          /\ \A j \in 1..Len(log) :
                log[j].e = "install" => j = 3 /\ log[2] = LA
    /\ pc \in {"start", "result"} =>
          \A op \in inflight :
              op.kind = "install" => op.tabId = d.tabId /\ op.frameId = d.frameId

\* C25 as stated: safeSendMessage never waits for the install it asked for.
C25_Original ==
    pc \in {"start", "result"} => d.at # "inject"

\* C25 amended: safeSendMessage waits for the install it asked for: while
\* the executeScript is in flight the call is suspended on it with nothing
\* else in flight, and the sleep and the second send come only after it has
\* settled.
C25_InstallIsAwaited ==
    /\ pc \in {"start", "result"} =>
          \A op \in inflight :
              op.kind = "install" =>
                  /\ d.at = "inject"
                  /\ inflight = {op}
                  /\ callLog[Len(callLog)].e = "install"
    /\ \A j \in 1..Len(callLog) :
          callLog[j].e = "install" =>
              j = Len(callLog) \/ callLog[j + 1].e = "installed"
    /\ \A log \in FinishedLogs : \A j \in 1..Len(log) :
          log[j].e = "install" => j < Len(log) /\ log[j + 1].e = "installed"

\* C25 witness: a Result call to frame 1 is suspended on its executeScript.
C25_Witness ==
    /\ pc = "result"
    /\ d.at = "inject"
    /\ d.frameId = JsNumber("1")
    /\ inflight = {Op("install", tabId, JsNumber("1"), "", 0)}
    /\ callLog = <<Ev("send", "", 0), LA, Ev("install", "", 0)>>

\* C26: what follows a settled install does not depend on how it settled:
\* after a listener-absent send error the call sleeps and goes on, after
\* any other send error it throws, whether the install succeeded or failed.
C26_InstallOutcomeIgnored ==
    /\ \A j \in 1..Len(callLog) :
          callLog[j].e = "installed" =>
              /\ j = 4 /\ callLog[2] = LA
              /\ j < Len(callLog) /\ callLog[j + 1].e = "sleep"
    /\ \A k \in 1..Len(calls) :
          LET log == calls[k].log
          IN  \A j \in 1..Len(log) :
                  log[j].e = "installed" =>
                      /\ j = 4
                      /\ log[2].e = "error"
                      /\ IF log[2] = LA
                         THEN j < Len(log) /\ log[j + 1].e = "sleep"
                         ELSE j = Len(log) /\ calls[k].outcome = FailedToSend

\* C26 witness: the install was refused as scope-ineligible and the call
\* went on to sleep and to a second send, which was acknowledged.
C26_Witness ==
    /\ pc = "done"
    /\ Len(calls) = 1
    /\ calls[1].log = <<Ev("send", "", 0), LA, Ev("install", "", 0),
                        Ev("installed", "ScopeIneligible", 0), Ev("sleep", "", 300),
                        Ev("wake", "", 0), Ev("send", "", 0), Ev("ack", "", 0)>>

\* C27: verifyUrlWithAI requests the endpoints in list order, each at most
\* once: the k-th attempt is on the k-th endpoint, every earlier attempt has
\* failed, and the request in flight is the one of the last attempt.
C27_EachEndpointOnce ==
    /\ Len(contacted) <= Len(BACKEND_URLS)
    /\ \A k \in 1..Len(contacted) : contacted[k].endpoint = k
    /\ pc = "verify" =>
          /\ v.idx = Len(contacted)
          /\ \A op \in inflight : op.endpoint = v.idx
          /\ \A k \in 1..(Len(contacted) - 1) :
                contacted[k].outcome \in
                    {"networkError", "abort", "status", "syntaxError", "typeError"}

\* C27 witness: the first endpoint answered with a non-success status and
\* the body of the second endpoint is being read.
C27_Witness ==
    /\ pc = "verify"
    /\ Len(contacted) = 2
    /\ contacted[1].outcome = "status"
    /\ v.at = "json"
    /\ inflight = {Op("json", JsUndefined, JsUndefined, "", 2)}

StartSends ==
    (IF pc = "start" THEN Count(callLog, "send") ELSE 0)
    + (IF Len(calls) >= 1 THEN Count(calls[1].log, "send") ELSE 0)
    + (IF Len(calls) >= 2 THEN Count(calls[2].log, "send") ELSE 0)

\* C28 as stated: Start is sent only to the frame the handler was given, at
\* most twice.
C28_Original ==
    pc \in {"start", "verify"} =>
        /\ \A k \in 1..Len(calls) : calls[k].frameId = frameId
        /\ pc = "start" => d.frameId = frameId
        /\ StartSends <= 2

\* C28 amended: Start is sent to the frame the handler was given at most
\* twice and, when that call failed and a frame id was given, to the top
\* level at most twice more; there is no third call.
C28_StartFallsBackToo ==
    pc \in {"start", "verify"} =>
        /\ Len(calls) <= 2
        /\ \A k \in 1..Len(calls) :
              /\ calls[k].call = k
              /\ calls[k].message = StartMessage
              /\ calls[k].retries = 2
              /\ Count(calls[k].log, "send") <= 2
              /\ calls[k].frameId = (IF k = 1 THEN frameId ELSE JsUndefined)
        /\ Len(calls) = 2 => frameId # JsUndefined /\ calls[1].outcome # "ok"
        /\ pc = "start" =>
              /\ d.call = Len(calls) + 1
              /\ d.call <= 2
              /\ d.message = StartMessage
              /\ d.frameId = (IF d.call = 1 THEN frameId ELSE JsUndefined)
              /\ d.call = 2 => frameId # JsUndefined /\ calls[1].outcome # "ok"
        /\ StartSends <= (IF frameId = JsUndefined THEN 2 ELSE 4)

\* C28 witness: Start was sent twice to frame 1 and twice to the top level
\* before verifyUrlWithAI was entered.
C28_Witness ==
    /\ pc = "verify"
    /\ frameId = JsNumber("1")
    /\ Len(calls) = 2
    /\ calls[2].frameId = JsUndefined
    /\ StartSends = 4

\* C29 as stated: at no point are two host operations in flight.
C29_Original == Cardinality(inflight) <= 1

\* C29 amended: outside ensureContentScriptInjected at most one host
\* operation is in flight; ensureContentScriptInjected has the installs for
\* the top level and for the clicked frame in flight together, and nothing
\* else.
C29_OnlyActivationIsParallel ==
    /\ pc # "activate" => Cardinality(inflight) <= 1
    /\ pc = "activate" =>
          /\ Cardinality(inflight) <= 2
          /\ \A op \in inflight : op.kind = "install" /\ op.frameId \in activated
          /\ \A o1, o2 \in inflight : o1.frameId = o2.frameId => o1 = o2

\* C29 witness: the installs for the top level and for frame 1 are in flight.
C29_Witness ==
    /\ pc = "activate"
    /\ Cardinality(inflight) = 2
    /\ {op.frameId : op \in inflight} = {JsUndefined, JsNumber("1")}

\* C30: the record verifyUrlWithAI returned is made once, carries the
\* clicked url, and is the payload of every Result send of the run: of the
\* running call and of every finished one, the top-level call included.
C30_OneVerdictPerRun ==
    /\ pc \in {"idle", "activate", "start", "verify"} => result = NoResult
    /\ pc = "result" =>
          /\ result # NoResult
          /\ result.url = url
          /\ d.message.type = "VERIFICATION_RESULT"
          /\ d.message.payload = result
          /\ \A op \in inflight : op.kind \notin {"fetch", "json"}
    /\ (pc = "result" \/ (pc = "done" /\ outcome = "returned")) =>
          /\ result.url = url
          /\ \A k \in 1..Len(calls) :
                /\ calls[k].message.type = "VERIFICATION_RESULT"
                /\ calls[k].message.payload = result

\* C30 witness: a DANGER record was sent to frame 1 without success and then
\* acknowledged at the top level.
C30_Witness ==
    /\ pc = "done"
    /\ outcome = "returned"
    /\ result.verdict = JsString("DANGER")
    /\ Len(calls) = 2
    /\ calls[1].frameId = JsNumber("1") /\ calls[1].outcome # "ok"
    /\ calls[2].frameId = JsUndefined /\ calls[2].outcome = "ok"
    /\ calls[2].message.payload = result

\* The targets whose install has settled, and those whose install failed.
SettledTargets == {e.frameId : e \in installed}
FailedTargets == {e.frameId : e \in {x \in installed : ~x.res.ok}}

\* C33: ensureContentScriptInjected never raises.  While it runs the handler
\* has not ended, and every target is either still being installed or has
\* settled, whether or not another target's install failed; the handler
\* reaches its catch only after a send was issued, that is after the
\* activation returned; and when the activation has returned with the
\* first send in flight, every target of the run has settled, failed or not.
C33_ActivateNeverRaises ==
    /\ pc = "activate" =>
          /\ outcome = ""
          /\ SettledTargets \cup {op.frameId : op \in inflight} = InjectionTargets(frameId)
          /\ \A op \in inflight : op.kind = "install"
    /\ outcome = "caught" => "send" \in issued
    /\ installed # {} /\ pc # "activate" =>
          /\ pc = "start" /\ outcome = ""
          /\ SettledTargets = InjectionTargets(frameId)
          /\ inflight = {Op("send", tabId, frameId, "VERIFICATION_START", 0)}

\* C33 witness: the install into the top frame failed with an error of no
\* known class, the install into the clicked frame was still made and
\* succeeded, and the Start send is in flight.
C33_Witness ==
    /\ pc = "start"
    /\ frameId = JsNumber("1")
    /\ installed = {[frameId |-> JsUndefined, res |-> Settled(FALSE, MsgPortClosed)],
                    [frameId |-> JsNumber("1"), res |-> Settled(TRUE, {})]}
    /\ FailedTargets = {JsUndefined}
    /\ inflight = {Op("send", tabId, frameId, "VERIFICATION_START", 0)}

\* C34: a loading overlay stays visible until the next Result is received:
\* the dismiss timer, armed by an earlier Result, never hides an overlay
\* that shows the loading state.
C34_LoadingStaysUntilResult ==
    \A s \in Scopes :
        /\ agent[s].html = "loading" => agent[s].display = "block"
        /\ agent[s].dismissed # "loading"

\* C32: the agent acknowledges every message it receives, whatever its
\* type, and does so before it renders: after every delivery the listener
\* has answered, also when the rendering threw.
C32_AckBeforeRender ==
    last.kind \in {"VERIFICATION_START", "VERIFICATION_RESULT", "OTHER"} => last.acked

\* C32 witness: the rendering of a Result threw in the frame, which showed
\* the loading state, and the listener had answered.
C32_Witness ==
    /\ last.kind = "VERIFICATION_RESULT"
    /\ last.scope = JsNumber("1")
    /\ last.threw
    /\ last.acked
    /\ agent[JsNumber("1")].html = "loading"

====
